---- MODULE Spec2Model ----
(***************************************************************************)
(* A model of the car-wash booking backend of src/carwash/main.py: the     *)
(* store (the tables carwashes, services, orders and feedback), the        *)
(* request handlers create_order, update_order_state and                   *)
(* get_available_windows, the three-clause conflict condition of           *)
(* create_order, and the sessions and exception clauses of the delete and  *)
(* list handlers.                                                          *)
(*                                                                         *)
(* A time of day is a whole number of seconds since midnight (the          *)
(* pydantic/PostgreSQL time values of the code, to the second).  The text  *)
(* "HH:MM" that strftime("%H:%M") produces is modelled by the number of    *)
(* whole minutes it shows.                                                 *)
(*                                                                         *)
(* Every handler opens its own session; a session is one transaction at    *)
(* PostgreSQL's default READ COMMITTED level, so each statement of a       *)
(* handler reads the rows committed when the statement runs and requests   *)
(* interleave between statements.  An INSERT or UPDATE and the commit that *)
(* follows it directly are one step.                                       *)
(***************************************************************************)
EXTENDS Integers, Sequences, FiniteSets, TLC

VARIABLES
    carwashes,  \* table carwashes: carwashid -> row
    services,   \* table services: serviceid -> row
    orders,     \* table orders: orderid -> row
    req,        \* the requests of the run: what each asked, where it is, its response
    avail,      \* the get_available_windows request and its response
    probe,      \* one evaluation of the conflict condition: inputs and result
    feedback,   \* table feedback: feedbackid -> row
    call        \* one call of a handler with its session: where it is, how it ended

vars == <<carwashes, services, orders, req, avail, probe, feedback, call>>

----------------------------------------------------------------------------
(* Bounds of the model *)

MaxTick == 5        \* times of day are 0, 30, ..., MaxTick * 30 seconds
MaxWindows == 2     \* wash-window numbers 1..MaxWindows
MaxDuration == 2    \* service durations 1..MaxDuration minutes
MaxDate == 1        \* stored dates 1..MaxDate; date MaxDate + 1 has no order
MaxCarwash == 1     \* stored carwash ids 1..MaxCarwash; MaxCarwash + 1 is absent
MaxService == 1     \* stored service ids 1..MaxService; MaxService + 1 is absent
MaxOrders == 2      \* orders stored at the start: at most MaxOrders
MaxState == 3       \* state codes 1..MaxState
MaxFeedback == 1    \* stored feedback ids 1..MaxFeedback; MaxFeedback + 1 is absent
NReq == 2           \* requests of a run, handled concurrently

(* Program constants *)

Pending == 1
Confirmed == 2
SecondsPerMinute == 60
MinutesPerHour == 60
StatusOK == 200
StatusNoContent == 204
StatusBadRequest == 400
StatusNotFound == 404

----------------------------------------------------------------------------
(* Values *)

TickSeconds == SecondsPerMinute \div 2
Times == {k * TickSeconds : k \in 0..MaxTick}
MinuteTimes == {t \in Times : t % SecondsPerMinute = 0}
Windows == 1..MaxWindows
Dates == 1..MaxDate
QueryDates == 1..(MaxDate + 1)
CarwashIds == 1..(MaxCarwash + 1)
ServiceIds == 1..(MaxService + 1)
OrderIds == 1..(MaxOrders + NReq)
States == 1..MaxState
Requests == 1..NReq
FeedbackIds == 1..(MaxFeedback + 1)
FacilityWindows == MaxWindows - 1

(* OrderBase: the body of a create_order request *)
OrderBase(cw, sv, cl, d, st, en, w, s) ==
    [carwashid |-> cw, serviceid |-> sv, clientid |-> cl, date |-> d,
     starttime |-> st, endtime |-> en, washwindow |-> w, state |-> s]

(* OrderResponse: a row of orders with its identity *)
OrderResponse(order, order_id) ==
    [orderid |-> order_id, carwashid |-> order.carwashid,
     serviceid |-> order.serviceid, clientid |-> order.clientid,
     date |-> order.date, starttime |-> order.starttime,
     endtime |-> order.endtime, washwindow |-> order.washwindow,
     state |-> order.state]

NoOrder == OrderBase(0, 0, 0, 0, 0, 0, 0, 0)
NoBody == OrderResponse(NoOrder, 0)

----------------------------------------------------------------------------
(* The conflict condition of create_order *)

(* ConflictClause with <= for < in its first clause. *)
ConflictClauseClosedEnd(starttime, endtime, row) ==
    \/ (starttime >= row.starttime /\ starttime <= row.endtime)
    \/ (endtime > row.starttime /\ endtime <= row.endtime)
    \/ (starttime <= row.starttime /\ endtime >= row.endtime)

(* The three clauses of the WHERE condition, for the candidate             *)
(* [starttime, endtime) against one stored row.                            *)
ConflictClause(starttime, endtime, row) ==
    \/ (starttime >= row.starttime /\ starttime < row.endtime)
    \/ (endtime > row.starttime /\ endtime <= row.endtime)
    \/ (starttime <= row.starttime /\ endtime >= row.endtime)

(* The rows the conflict SELECT is written to match. *)
ConflictRows(order) ==
    {id \in DOMAIN orders :
        /\ orders[id].carwashid = order.carwashid
        /\ orders[id].date = order.date
        /\ orders[id].washwindow = order.washwindow
        /\ ConflictClause(order.starttime, order.endtime, orders[id])}

(* ConflictStatementParses for the statement with its parenthesis closed. *)
ConflictStatementRepaired == TRUE

(* Whether the text of the conflict SELECT is a statement the store can    *)
(* run.  Its condition opens "AND (" and never closes it before LIMIT, so  *)
(* the store rejects the statement with a syntax error each time it is     *)
(* executed.                                                               *)
ConflictStatementParses == FALSE

----------------------------------------------------------------------------
(* Requests and responses *)

Idle ==
    [op |-> "none", pc |-> "idle", order |-> NoOrder, orderid |-> 0,
     state |-> 0, status |-> 0, detail |-> "", body |-> NoBody,
     stmts |-> <<>>]

(* raise HTTPException(status_code, detail), or the return of a body: the  *)
(* request r ends; what it asked for stays on record.            *)
Respond(cur, status, detail, body, stmts) ==
    [cur EXCEPT !.pc = "done", !.status = status, !.detail = detail,
                !.body = body, !.stmts = stmts]

(* The well-formed intervals with both ends in T. *)
Intervals(T) == {iv \in T \X T : iv[1] < iv[2]}

(* The bodies of the create_order requests: any two times of day, in any  *)
(* order, and any window number, the facility's or not.                    *)
CreateInputs ==
    {OrderBase(cw, sv, 1, d, st, en, w, Pending) :
        cw \in CarwashIds, sv \in ServiceIds, d \in Dates,
        st \in MinuteTimes, en \in MinuteTimes, w \in Windows}

UpdateOrderIds == 1..(MaxOrders + 1)

----------------------------------------------------------------------------
(* create_order *)

(* CreateOrderBegin with "and" for "or" in the existence test. *)
CreateOrderBeginBothMissing(r, order) ==
    /\ req[r].pc = "idle"
    /\ LET carwash_exists == order.carwashid \in DOMAIN carwashes
           service_exists == order.serviceid \in DOMAIN services
           cur == [Idle EXCEPT !.op = "create_order", !.order = order]
           stmts == <<"select_carwash", "select_service">>
       IN  req' = [req EXCEPT ![r] =
                IF ~carwash_exists /\ ~service_exists
                THEN Respond(cur, StatusNotFound,
                             "Carwash or service not found", NoBody, stmts)
                ELSE [cur EXCEPT !.pc = "conflict_check", !.stmts = stmts]]
    /\ UNCHANGED <<carwashes, services, orders, avail, probe, feedback, call>>

(* The two existence SELECTs and the 404 that follows when either finds    *)
(* no row.                                                                 *)
CreateOrderBegin(r, order) ==
    /\ req[r].pc = "idle"
    /\ LET carwash_exists == order.carwashid \in DOMAIN carwashes
           service_exists == order.serviceid \in DOMAIN services
           cur == [Idle EXCEPT !.op = "create_order", !.order = order]
           stmts == <<"select_carwash", "select_service">>
       IN  req' = [req EXCEPT ![r] =
                IF ~carwash_exists \/ ~service_exists
                THEN Respond(cur, StatusNotFound,
                             "Carwash or service not found", NoBody, stmts)
                ELSE [cur EXCEPT !.pc = "conflict_check", !.stmts = stmts]]
    /\ UNCHANGED <<carwashes, services, orders, avail, probe, feedback, call>>

(* CreateOrderConflictCheck with the conflict SELECT left out. *)
CreateOrderConflictCheckSkipped(r) ==
    /\ req' = [req EXCEPT ![r] = [req[r] EXCEPT !.pc = "insert"]]
    /\ UNCHANGED <<carwashes, services, orders, avail, probe, feedback, call>>

(* The conflict SELECT.  A statement the store rejects raises inside the   *)
(* try block: except Exception rolls back and answers 400 with the error   *)
(* text.  A matching row answers 400; no matching row lets the handler go  *)
(* on to the INSERT.                                                       *)
CreateOrderConflictCheck(r) ==
    LET cur == req[r]
        stmts == Append(cur.stmts, "select_conflict")
    IN  /\ req' = [req EXCEPT ![r] =
                IF ~ConflictStatementParses
                THEN Respond(cur, StatusBadRequest, "syntax error", NoBody,
                             stmts)
                ELSE IF ConflictRows(cur.order) # {}
                THEN Respond(cur, StatusBadRequest,
                             "The selected time slot is already booked",
                             NoBody, stmts)
                ELSE [cur EXCEPT !.pc = "insert", !.stmts = stmts]]
        /\ UNCHANGED <<carwashes, services, orders, avail, probe, feedback, call>>

(* order_id = uuid4(), the INSERT and the commit. *)
CreateOrderInsert(r) ==
    LET cur == req[r]
    IN  \E order_id \in OrderIds \ DOMAIN orders :
            /\ orders' = [id \in DOMAIN orders \cup {order_id} |->
                            IF id = order_id THEN cur.order ELSE orders[id]]
            /\ req' = [req EXCEPT ![r] =
                        Respond(cur, StatusOK, "",
                                OrderResponse(cur.order, order_id),
                                Append(cur.stmts, "insert_order"))]
            /\ UNCHANGED <<carwashes, services, avail, probe, feedback, call>>

(* The rest of the handler after the existence checks, one statement at a  *)
(* time.                                                                   *)
CreateOrderContinue(r) ==
    /\ req[r].op = "create_order"
    /\ req[r].pc \in {"conflict_check", "insert"}
    /\ IF req[r].pc = "conflict_check"
       THEN CreateOrderConflictCheck(r)
       ELSE CreateOrderInsert(r)

----------------------------------------------------------------------------
(* update_order_state *)

(* The existence SELECT and the 404 when it finds no row. *)
UpdateOrderStateBegin(r, order_id, new_state) ==
    /\ req[r].pc = "idle"
    /\ LET order_exists == order_id \in DOMAIN orders
           cur == [Idle EXCEPT !.op = "update_order_state",
                               !.orderid = order_id, !.state = new_state]
           stmts == <<"select_order">>
       IN  req' = [req EXCEPT ![r] =
                IF ~order_exists
                THEN Respond(cur, StatusNotFound, "Order not found", NoBody,
                             stmts)
                ELSE [cur EXCEPT !.pc = "update", !.stmts = stmts]]
    /\ UNCHANGED <<carwashes, services, orders, avail, probe, feedback, call>>

(* UpdateStatement that accepts only a state code above the current one. *)
UpdateStatementForwardOnly(order_id, new_state) ==
    [id \in DOMAIN orders |->
        IF id = order_id /\ new_state > orders[id].state
        THEN [orders[id] EXCEPT !.state = new_state]
        ELSE orders[id]]

(* UpdateStatement that also sets starttime to midnight. *)
UpdateStatementResettingStart(order_id, new_state) ==
    [id \in DOMAIN orders |->
        IF id = order_id
        THEN [orders[id] EXCEPT !.state = new_state, !.starttime = 0]
        ELSE orders[id]]

(* UpdateStatement without its WHERE condition. *)
UpdateStatementAllRows(order_id, new_state) ==
    [id \in DOMAIN orders |-> [orders[id] EXCEPT !.state = new_state]]

(* The table orders after UPDATE orders SET state = :state WHERE orderid =  *)
(* :orderid.                                                               *)
UpdateStatement(order_id, new_state) ==
    [id \in DOMAIN orders |->
        IF id = order_id THEN [orders[id] EXCEPT !.state = new_state]
        ELSE orders[id]]

(* The UPDATE ... RETURNING, the commit and the returned row.  With no row *)
(* returned, result is None and result._mapping raises: 400.               *)
UpdateOrderStateApply(r) ==
    /\ req[r].op = "update_order_state"
    /\ req[r].pc = "update"
    /\ LET cur == req[r]
           stmts == Append(cur.stmts, "update_order")
       IN  IF cur.orderid \in DOMAIN orders
           THEN /\ orders' = UpdateStatement(cur.orderid, cur.state)
                /\ req' = [req EXCEPT ![r] =
                            Respond(cur, StatusOK, "",
                                    OrderResponse(orders'[cur.orderid],
                                                  cur.orderid), stmts)]
           ELSE /\ orders' = orders
                /\ req' = [req EXCEPT ![r] =
                            Respond(cur, StatusBadRequest, "no row", NoBody,
                                    stmts)]
    /\ UNCHANGED <<carwashes, services, avail, probe, feedback, call>>

----------------------------------------------------------------------------
(* The store at the start *)

(* Half-open overlap of two rows' intervals, and the partition key. *)
Overlaps(a, b) == a.starttime < b.endtime /\ b.starttime < a.endtime

SamePartition(a, b) ==
    /\ a.carwashid = b.carwashid
    /\ a.date = b.date
    /\ a.washwindow = b.washwindow

NoOverlap(tbl) ==
    \A i \in DOMAIN tbl : \A j \in DOMAIN tbl :
        (i # j /\ SamePartition(tbl[i], tbl[j])) => ~Overlaps(tbl[i], tbl[j])

Tables(rows) == UNION {[1..n -> rows] : n \in 0..MaxOrders}

(* The rows of a store that holds bookings on whole minutes, in the        *)
(* windows its facilities have.                                            *)
StoredRows ==
    {OrderBase(cw, sv, 1, d, iv[1], iv[2], w, s) :
        cw \in 1..MaxCarwash, sv \in 1..MaxService, d \in Dates,
        iv \in Intervals(MinuteTimes), w \in 1..FacilityWindows,
        s \in {Pending, Confirmed}}

NoProbe ==
    [starttime |-> 0, endtime |-> 0, row |-> NoOrder, evaluated |-> FALSE,
     conflict |-> FALSE]

NoAvail ==
    [status |-> 0, detail |-> "", carwashid |-> 0, serviceid |-> 0,
     date |-> 0, slots |-> <<>>]

NoCall ==
    [handler |-> "none", id |-> 0, pc |-> "idle", session |-> "none",
     outcome |-> "", raised |-> "none", status |-> 0, detail |-> ""]

(* The tables hold what earlier requests and the store's other writers     *)
(* left: facilities open over the whole day of the model, with one window  *)
(* fewer than the requests can name, and orders that are well formed, in   *)
(* a window of their facility, and do not overlap within a partition.      *)
Init ==
    /\ carwashes = [c \in 1..MaxCarwash |->
                        [windowsnumber |-> FacilityWindows, openingtime |-> 0,
                         closingtime |-> MaxTick * TickSeconds]]
    /\ services = [s \in 1..MaxService |-> [duration |-> 1, carwashid |-> 1]]
    /\ orders \in {t \in Tables(StoredRows) : NoOverlap(t)}
    /\ req = [r \in Requests |-> Idle]
    /\ avail = NoAvail
    /\ probe = NoProbe
    /\ feedback = <<>>
    /\ call = NoCall

Next ==
    \E r \in Requests :
        \/ \E order \in CreateInputs : CreateOrderBegin(r, order)
        \/ CreateOrderContinue(r)
        \/ \E order_id \in UpdateOrderIds, new_state \in States :
                UpdateOrderStateBegin(r, order_id, new_state)
        \/ UpdateOrderStateApply(r)

Spec == Init /\ [][Next]_vars

----------------------------------------------------------------------------
(* get_available_windows *)

(* The text "HH:MM:SS" of a time column cast by ::text, as <<HH, MM, SS>>. *)
TimeText(t) ==
    <<t \div (SecondsPerMinute * MinutesPerHour),
      (t \div SecondsPerMinute) % MinutesPerHour,
      t % SecondsPerMinute>>

(* datetime.strptime(text, "%H:%M:%S").time() *)
ParseHMS(text) ==
    (text[1] * MinutesPerHour + text[2]) * SecondsPerMinute + text[3]

(* t.strftime("%H:%M"), as <<HH, MM>>: the seconds are not shown. *)
FormatHM(t) ==
    <<t \div (SecondsPerMinute * MinutesPerHour),
      (t \div SecondsPerMinute) % MinutesPerHour>>

(* The order of ORDER BY washwindow, starttime: rows equal in both may     *)
(* come in either order.                                                   *)
OrderedBefore(a, b) ==
    \/ a.washwindow < b.washwindow
    \/ (a.washwindow = b.washwindow /\ a.starttime <= b.starttime)

(* The results the SELECT of the day's bookings can return: the rows of    *)
(* the facility and date, as washwindow and the two time texts, in every   *)
(* order that ORDER BY allows.                                             *)
BookedWindows(carwash_id, date) ==
    LET ids == {id \in DOMAIN orders :
                    /\ orders[id].carwashid = carwash_id
                    /\ orders[id].date = date}
        n == Cardinality(ids)
        listings == {l \in [1..n -> ids] :
                        /\ \A i \in 1..n : \A j \in 1..n :
                                i # j => l[i] # l[j]
                        /\ \A i \in 1..n : \A j \in 1..n :
                                i < j => OrderedBefore(orders[l[i]],
                                                       orders[l[j]])}
    IN  {[i \in 1..n |->
            [washwindow |-> orders[l[i]].washwindow,
             starttime |-> TimeText(orders[l[i]].starttime),
             endtime |-> TimeText(orders[l[i]].endtime)]] : l \in listings}

(* GapFits that compares the seconds of the gap with the minutes asked. *)
GapFitsUnscaled(from, to, duration) == (to - from) >= duration

(* available_minutes >= duration, where available_minutes is the length of *)
(* [from, to) in seconds divided by 60 as a float: the same as comparing   *)
(* the seconds with duration * 60.                                         *)
GapFits(from, to, duration) == (to - from) >= duration * SecondsPerMinute

(* One entry of available_slots. *)
Slot(window, from, to) ==
    [washwindow |-> window, starttime |-> FormatHM(from),
     endtime |-> FormatHM(to)]

(* The loop over the bookings of one window: the slots it appends and the  *)
(* current_time it ends with.                                              *)
RECURSIVE SweepBookings(_, _, _, _)
SweepBookings(window, window_bookings, current_time, duration) ==
    IF window_bookings = <<>>
    THEN [slots |-> <<>>, current_time |-> current_time]
    ELSE LET booking == Head(window_bookings)
             booking_start == ParseHMS(booking.starttime)
             booking_end == ParseHMS(booking.endtime)
             found == IF /\ current_time < booking_start
                         /\ GapFits(current_time, booking_start, duration)
                      THEN <<Slot(window, current_time, booking_start)>>
                      ELSE <<>>
             rest == SweepBookings(window, Tail(window_bookings),
                                   booking_end, duration)
         IN  [slots |-> found \o rest.slots,
              current_time |-> rest.current_time]

(* The body of the loop over the windows, for one window. *)
WindowSlots(window, booked_windows, opening_time, closing_time, duration) ==
    LET InWindow(b) == b.washwindow = window
        window_bookings == SelectSeq(booked_windows, InWindow)
        swept == SweepBookings(window, window_bookings, opening_time,
                               duration)
        current_time == swept.current_time
    IN  swept.slots \o
        ( IF /\ current_time < closing_time
             /\ GapFits(current_time, closing_time, duration)
          THEN <<Slot(window, current_time, closing_time)>>
          ELSE <<>> )

RECURSIVE AvailableSlotsFrom(_, _, _, _, _, _)
AvailableSlotsFrom(window, windows_number, booked_windows, opening_time, closing_time, duration) ==
    IF window > windows_number
    THEN <<>>
    ELSE WindowSlots(window, booked_windows, opening_time, closing_time,
                     duration)
         \o AvailableSlotsFrom(window + 1, windows_number, booked_windows,
                               opening_time, closing_time, duration)

(* AvailableSlots with range(0, windows_number + 1). *)
AvailableSlotsFromZero(windows_number, booked_windows, opening_time, closing_time, duration) ==
    AvailableSlotsFrom(0, windows_number, booked_windows, opening_time,
                       closing_time, duration)

(* available_slots after the loop over range(1, windows_number + 1). *)
AvailableSlots(windows_number, booked_windows, opening_time, closing_time, duration) ==
    AvailableSlotsFrom(1, windows_number, booked_windows, opening_time,
                       closing_time, duration)

(* The whole handler: its three SELECTs read rows no request of this       *)
(* specification changes, so they are one step.                            *)
GetAvailableWindows(carwash_id, date, service_id) ==
    /\ avail.status = 0
    /\ IF carwash_id \notin DOMAIN carwashes
       THEN avail' = [NoAvail EXCEPT !.status = StatusNotFound,
                                     !.detail = "Carwash not found"]
       ELSE IF service_id \notin DOMAIN services
       THEN avail' = [NoAvail EXCEPT !.status = StatusNotFound,
                                     !.detail = "Service not found"]
       ELSE LET carwash == carwashes[carwash_id]
                duration == services[service_id].duration
                windows_number == carwash.windowsnumber
                opening_time == ParseHMS(TimeText(carwash.openingtime))
                closing_time == ParseHMS(TimeText(carwash.closingtime))
            IN  \E booked_windows \in BookedWindows(carwash_id, date) :
                    avail' = [status |-> StatusOK, detail |-> "",
                              carwashid |-> carwash_id,
                              serviceid |-> service_id, date |-> date,
                              slots |-> AvailableSlots(windows_number,
                                            booked_windows, opening_time,
                                            closing_time, duration)]
    /\ UNCHANGED <<carwashes, services, orders, req, probe, feedback, call>>

(* The rows of a store whose bookings have any two times of the day. *)
BookingRows ==
    {OrderBase(cw, sv, 1, d, st, en, w, Pending) :
        cw \in 1..MaxCarwash, sv \in 1..MaxService, d \in Dates,
        st \in Times, en \in Times, w \in Windows}

(* create_carwash and create_service store the windowsnumber and the       *)
(* duration they are given, any integer: zero stands for the values below  *)
(* one.                                                                    *)
FacilityRows ==
    {[windowsnumber |-> n, openingtime |-> iv[1], closingtime |-> iv[2]] :
        n \in 0..MaxWindows, iv \in Intervals(Times)}

ServiceRows == {[duration |-> d, carwashid |-> 1] : d \in 0..MaxDuration}

(* A number that orders rows by window, start and end. *)
RowRank(row) ==
    LET span == MaxTick * TickSeconds + 1
    IN  (row.washwindow * span + row.starttime) * span + row.endtime

(* Any facility hours, window count and service duration, and any stored   *)
(* bookings.  The handler never reads an orderid, so the ids are given in  *)
(* the order of the rows' ranks.                                           *)
InitSlots ==
    /\ carwashes \in [1..MaxCarwash -> FacilityRows]
    /\ services \in [1..MaxService -> ServiceRows]
    /\ orders \in {t \in Tables(BookingRows) :
                        \A i \in DOMAIN t : \A j \in DOMAIN t :
                            i < j => RowRank(t[i]) <= RowRank(t[j])}
    /\ req = [r \in Requests |-> Idle]
    /\ avail = NoAvail
    /\ probe = NoProbe
    /\ feedback = <<>>
    /\ call = NoCall

NextSlots ==
    \E carwash_id \in CarwashIds, date \in QueryDates,
       service_id \in ServiceIds :
        GetAvailableWindows(carwash_id, date, service_id)

SpecSlots == InitSlots /\ [][NextSlots]_vars

----------------------------------------------------------------------------
(* The conflict condition alone: one candidate against one stored row *)

EvaluateConflictClause ==
    /\ ~probe.evaluated
    /\ probe' = [probe EXCEPT
                    !.evaluated = TRUE,
                    !.conflict = ConflictClause(probe.starttime,
                                                probe.endtime, probe.row)]
    /\ UNCHANGED <<carwashes, services, orders, req, avail, feedback, call>>

InitOverlap ==
    /\ carwashes = [c \in 1..MaxCarwash |->
                        [windowsnumber |-> MaxWindows, openingtime |-> 0,
                         closingtime |-> MaxTick * TickSeconds]]
    /\ services = [s \in 1..MaxService |-> [duration |-> 1, carwashid |-> 1]]
    /\ orders = <<>>
    /\ req = [r \in Requests |-> Idle]
    /\ avail = NoAvail
    /\ \E st \in Times, en \in Times, rst \in Times, ren \in Times :
            probe = [NoProbe EXCEPT
                        !.starttime = st, !.endtime = en,
                        !.row = OrderBase(1, 1, 1, 1, rst, ren, 1, Pending)]
    /\ feedback = <<>>
    /\ call = NoCall

NextOverlap == EvaluateConflictClause

SpecOverlap == InitOverlap /\ [][NextOverlap]_vars

----------------------------------------------------------------------------
(* Handlers and their sessions: delete_carwash, delete_service, get_order, *)
(* delete_feedback, get_all_carwashes, search_carwashes, get_all_services  *)
(* and search_services.  Any session.execute may raise an error of the     *)
(* store (a lost connection, a rejected statement).                        *)

Without(tbl, id) == [k \in DOMAIN tbl \ {id} |-> tbl[k]]

(* raise HTTPException(status_code, detail) that leaves the handler        *)
(* through its finally clause.                                             *)
HTTPException(cur, status_code, detail, outcome) ==
    [cur EXCEPT !.pc = "finally", !.raised = "HTTPException",
                !.status = status_code, !.detail = detail,
                !.outcome = outcome]

(* An exception no clause of the handler catches, on its way out through   *)
(* the finally clause: the handler sets no status.                         *)
Uncaught(cur, outcome) ==
    [cur EXCEPT !.pc = "finally", !.raised = "Exception",
                !.outcome = outcome]

(* The return of a handler from inside its try block. *)
Return(cur, status_code) ==
    [cur EXCEPT !.pc = "finally", !.status = status_code, !.outcome = "ok"]

(* session = SessionLocal(), the first line of every handler. *)
SessionLocal(handler, id) ==
    /\ call.pc \in {"idle", "done"}
    /\ call' = [NoCall EXCEPT !.handler = handler, !.id = id, !.pc = "body",
                              !.session = "open"]
    /\ UNCHANGED <<carwashes, services, orders, req, avail, probe, feedback>>

(* The try block of delete_carwash and its except clause.  The DELETE      *)
(* raises, or reports rowcount 0 and the handler raises HTTPException 404, *)
(* or it removes the row and the handler commits.  except Exception        *)
(* catches either exception, HTTPException being an Exception, rolls back  *)
(* and raises HTTPException 400 in its place.                              *)
DeleteCarwash ==
    /\ call.handler = "delete_carwash"
    /\ call.pc = "body"
    /\ \E raises \in BOOLEAN :
        IF raises
        THEN /\ call' = HTTPException(call, StatusBadRequest, "store error",
                                      "store_error")
             /\ carwashes' = carwashes
        ELSE IF call.id \notin DOMAIN carwashes
        THEN /\ call' = HTTPException(call, StatusBadRequest,
                                      "404: Carwash not found", "no_row")
             /\ carwashes' = carwashes
        ELSE /\ call' = Return(call, StatusNoContent)
             /\ carwashes' = Without(carwashes, call.id)
    /\ UNCHANGED <<services, orders, req, avail, probe, feedback>>

(* The try block of delete_service and its except clause, as in            *)
(* delete_carwash.                                                         *)
DeleteService ==
    /\ call.handler = "delete_service"
    /\ call.pc = "body"
    /\ \E raises \in BOOLEAN :
        IF raises
        THEN /\ call' = HTTPException(call, StatusBadRequest, "store error",
                                      "store_error")
             /\ services' = services
        ELSE IF call.id \notin DOMAIN services
        THEN /\ call' = HTTPException(call, StatusBadRequest,
                                      "404: Service not found", "no_row")
             /\ services' = services
        ELSE /\ call' = Return(call, StatusNoContent)
             /\ services' = Without(services, call.id)
    /\ UNCHANGED <<carwashes, orders, req, avail, probe, feedback>>

(* The try block of get_order, which has a finally clause and no except    *)
(* clause: an error of the store and the HTTPException 404 both leave the  *)
(* handler as they are.                                                    *)
GetOrder ==
    /\ call.handler = "get_order"
    /\ call.pc = "body"
    /\ \E raises \in BOOLEAN :
        call' = IF raises
                THEN Uncaught(call, "store_error")
                ELSE IF call.id \notin DOMAIN orders
                THEN HTTPException(call, StatusNotFound, "Order not found",
                                   "no_row")
                ELSE Return(call, StatusOK)
    /\ UNCHANGED <<carwashes, services, orders, req, avail, probe, feedback>>

(* The try block of delete_feedback and its except clauses: the existence  *)
(* SELECT, the 404 that except HTTPException passes on, the DELETE and the *)
(* commit; except Exception rolls back and raises HTTPException 400.       *)
DeleteFeedback ==
    /\ call.handler = "delete_feedback"
    /\ call.pc = "body"
    /\ \E raises \in BOOLEAN :
        IF raises
        THEN /\ call' = HTTPException(call, StatusBadRequest, "store error",
                                      "store_error")
             /\ feedback' = feedback
        ELSE IF call.id \notin DOMAIN feedback
        THEN /\ call' = HTTPException(call, StatusNotFound,
                                      "Feedback not found", "no_row")
             /\ feedback' = feedback
        ELSE /\ call' = Return(call, StatusNoContent)
             /\ feedback' = Without(feedback, call.id)
    /\ UNCHANGED <<carwashes, services, orders, req, avail, probe>>

(* The body of a handler that lists rows and has no try statement:         *)
(* session.execute, the list of the rows, session.close() and the return.  *)
(* When session.execute raises, the exception leaves the handler at that   *)
(* line and the lines after it do not run.                                 *)
ListRows(handler) ==
    /\ call.handler = handler
    /\ call.pc = "body"
    /\ \E raises \in BOOLEAN :
        call' = IF raises
                THEN [call EXCEPT !.pc = "done", !.raised = "Exception",
                                  !.outcome = "store_error"]
                ELSE [call EXCEPT !.pc = "done", !.session = "closed",
                                  !.status = StatusOK, !.outcome = "ok"]
    /\ UNCHANGED <<carwashes, services, orders, req, avail, probe, feedback>>

GetAllCarwashes == ListRows("get_all_carwashes")

SearchCarwashes == ListRows("search_carwashes")

GetAllServices == ListRows("get_all_services")

SearchServices == ListRows("search_services")

(* finally: session.close() *)
SessionClose ==
    /\ call.pc = "finally"
    /\ call' = [call EXCEPT !.pc = "done", !.session = "closed"]
    /\ UNCHANGED <<carwashes, services, orders, req, avail, probe, feedback>>

(* The handlers that take the id of one row, and the ids they are given. *)
TargetIds(handler) ==
    CASE handler = "delete_carwash" -> CarwashIds
      [] handler = "delete_service" -> ServiceIds
      [] handler = "get_order" -> UpdateOrderIds
      [] handler = "delete_feedback" -> FeedbackIds
      [] OTHER -> {0}

Handlers ==
    {"delete_carwash", "delete_service", "get_order", "delete_feedback",
     "get_all_carwashes", "search_carwashes", "get_all_services",
     "search_services"}

FeedbackRows == {[userid |-> 1, carwashid |-> 1, comment |-> "comment"]}

InitHandlers ==
    /\ carwashes = [c \in 1..MaxCarwash |->
                        [windowsnumber |-> MaxWindows, openingtime |-> 0,
                         closingtime |-> MaxTick * TickSeconds]]
    /\ services = [s \in 1..MaxService |-> [duration |-> 1, carwashid |-> 1]]
    /\ orders \in {t \in Tables(StoredRows) : NoOverlap(t)}
    /\ req = [r \in Requests |-> Idle]
    /\ avail = NoAvail
    /\ probe = NoProbe
    /\ feedback \in UNION {[1..n -> FeedbackRows] : n \in 0..MaxFeedback}
    /\ call = NoCall

NextHandlers ==
    \/ \E handler \in Handlers : \E id \in TargetIds(handler) :
            SessionLocal(handler, id)
    \/ DeleteCarwash
    \/ DeleteService
    \/ GetOrder
    \/ DeleteFeedback
    \/ GetAllCarwashes
    \/ SearchCarwashes
    \/ GetAllServices
    \/ SearchServices
    \/ SessionClose

SpecHandlers == InitHandlers /\ [][NextHandlers]_vars

----------------------------------------------------------------------------
(* What the claims speak of *)

Done(r) == req[r].pc = "done"

IsCreate(r) == req[r].op = "create_order"

IsUpdate(r) == req[r].op = "update_order_state"

EntitiesExist(order) ==
    /\ order.carwashid \in DOMAIN carwashes
    /\ order.serviceid \in DOMAIN services

(* The stored rows, other than those in skip, that share the candidate's   *)
(* partition and overlap its half-open interval.                           *)
OverlappingRows(order, skip) ==
    {id \in DOMAIN orders \ skip :
        SamePartition(orders[id], order) /\ Overlaps(orders[id], order)}

(* The candidate is an interval, and names a window of its facility. *)
WellFormed(order) == order.starttime < order.endtime

InFacilityWindow(order) ==
    order.washwindow \in 1..carwashes[order.carwashid].windowsnumber

(* Request r ended with a failure of the kind of Conflict (400). *)
EndedConflict(r) == req[r].status = StatusBadRequest

Range(seq) == {seq[i] : i \in DOMAIN seq}

----------------------------------------------------------------------------
C2_ExactlyOneOfOverlappingCreatesSucceeds ==
    LET created == {req[r].body.orderid : r \in Requests}
    IN  ( /\ \A r \in Requests :
                /\ Done(r) /\ IsCreate(r) /\ EntitiesExist(req[r].order)
                /\ WellFormed(req[r].order)
                /\ InFacilityWindow(req[r].order)
                /\ OverlappingRows(req[r].order, created) = {}
          /\ \A r \in Requests : \A q \in Requests :
                r # q => /\ SamePartition(req[r].order, req[q].order)
                         /\ Overlaps(req[r].order, req[q].order) )
        => /\ Cardinality({r \in Requests : req[r].status = StatusOK}) = 1
           /\ \A r \in Requests : req[r].status # StatusOK => EndedConflict(r)

(* C4: a create_order executed alone, whose facility and service exist,    *)
(* fails with Conflict and leaves the stored reservations unchanged when a *)
(* stored reservation of its partition overlaps the candidate; otherwise   *)
(* it succeeds, exactly one reservation with a new identity and the        *)
(* candidate's fields is added, and that record is returned.  Stated for   *)
(* candidates that are intervals in a window of the facility.              *)
C4_CreateAloneDecidedByOverlap ==
    [][\A r \in Requests :
        ( /\ \A q \in Requests \ {r} : req[q].pc = "idle"
          /\ IsCreate(r) /\ ~Done(r) /\ Done(r)'
          /\ EntitiesExist(req[r].order)
          /\ WellFormed(req[r].order)
          /\ InFacilityWindow(req[r].order) )
        => IF OverlappingRows(req[r].order, {}) # {}
           THEN EndedConflict(r)' /\ orders' = orders
           ELSE /\ req'[r].status = StatusOK
                /\ \E id \in OrderIds \ DOMAIN orders :
                    /\ DOMAIN orders' = DOMAIN orders \cup {id}
                    /\ orders'[id] = req[r].order
                    /\ \A k \in DOMAIN orders : orders'[k] = orders[k]
                    /\ req'[r].body = OrderResponse(req[r].order, id)]_vars

(* C5: a create_order that names a facility id or a service id absent from *)
(* the store fails with NotFound before the conflict check runs and before *)
(* any write, and leaves the stored reservations unchanged, whatever the   *)
(* candidate's interval and whatever reservations are stored.              *)
C5_MissingEntityIsNotFound ==
    /\ [](\A r \in Requests :
            (IsCreate(r) /\ ~EntitiesExist(req[r].order))
            => /\ Done(r)
               /\ req[r].status = StatusNotFound
               /\ req[r].stmts = <<"select_carwash", "select_service">>)
    /\ [][\A r \in Requests :
            (req[r].pc = "idle" /\ IsCreate(r)'
                /\ ~EntitiesExist(req'[r].order))
            => (Done(r)' /\ orders' = orders)]_vars

(* A request naming a stored facility and a missing service has ended 404  *)
(* while a stored row of its partition overlaps its candidate.             *)
C5_Witness ==
    \E r \in Requests :
        /\ Done(r) /\ IsCreate(r)
        /\ req[r].order.carwashid \in DOMAIN carwashes
        /\ req[r].order.serviceid \notin DOMAIN services
        /\ req[r].status = StatusNotFound
        /\ OverlappingRows(req[r].order, {}) # {}

(* C6: update_order_state fails with NotFound and changes nothing when no  *)
(* reservation has the id; when one has, the request succeeds for every    *)
(* new_state and every current state, and then the reservation's state is  *)
(* new_state.                                                              *)
C6_UpdateOverwritesOrNotFound ==
    [][\A r \in Requests :
        /\ (req[r].pc = "idle" /\ IsUpdate(r)')
            => IF req'[r].orderid \in DOMAIN orders
               THEN req'[r].pc = "update"
               ELSE /\ Done(r)' /\ req'[r].status = StatusNotFound
                    /\ orders' = orders
        /\ (req[r].pc = "update" /\ IsUpdate(r))
            => (req'[r] # req[r]
                => /\ Done(r)' /\ req'[r].status = StatusOK
                   /\ orders'[req[r].orderid].state = req[r].state
                   /\ req'[r].body.state = req[r].state)]_vars

(* One update has ended NotFound, and another has ended OK after writing   *)
(* Pending over its reservation.                                           *)
C6_Witness ==
    \E r \in Requests : \E q \in Requests :
        /\ Done(r) /\ IsUpdate(r) /\ req[r].status = StatusNotFound
        /\ req[r].orderid \notin DOMAIN orders
        /\ Done(q) /\ IsUpdate(q) /\ req[q].status = StatusOK
        /\ req[q].state = Pending
        /\ orders[req[q].orderid].state = Pending

(* C7: once a stored reservation's state differs from Pending (1), no      *)
(* request puts it back to Pending (1).                                    *)
C7_NeverBackToPending ==
    [][\A id \in DOMAIN orders :
        orders[id].state # Pending => orders'[id].state # Pending]_vars

(* C7 as amended: a stored reservation's state changes only in the UPDATE  *)
(* of an update_order_state request for that reservation, and becomes the  *)
(* state the caller asked for; it is Pending again exactly when the caller *)
(* asked for Pending.                                                      *)
C7_StateChangesOnlyAsRequested ==
    [][\A id \in DOMAIN orders :
        orders'[id].state # orders[id].state
        => \E r \in Requests :
            /\ IsUpdate(r) /\ req[r].pc = "update" /\ Done(r)'
            /\ req[r].orderid = id
            /\ orders'[id].state = req[r].state]_vars

(* Two updates of one reservation have ended OK, one asking for Confirmed  *)
(* and one for Pending, and the reservation is Pending, beside another     *)
(* stored reservation.                                                     *)
C7_Witness ==
    \E r \in Requests : \E q \in Requests :
        /\ Done(r) /\ IsUpdate(r) /\ req[r].status = StatusOK
        /\ Done(q) /\ IsUpdate(q) /\ req[q].status = StatusOK
        /\ req[r].orderid = req[q].orderid
        /\ req[r].state = Confirmed /\ req[q].state = Pending
        /\ orders[req[r].orderid].state = Pending
        /\ Cardinality(DOMAIN orders) >= 2

(* C3: for a candidate interval and a stored interval that are both well   *)
(* formed (start < end), the three-clause condition of create_order is     *)
(* true exactly when candidate.start < other.end and other.start <         *)
(* candidate.end; a candidate that only touches the other's boundary is no *)
(* conflict, and a candidate identical to a stored interval is one.        *)
C3_ThreeClausesAreHalfOpenOverlap ==
    LET cand == [starttime |-> probe.starttime, endtime |-> probe.endtime]
        other == probe.row
    IN  ( /\ probe.evaluated
          /\ cand.starttime < cand.endtime
          /\ other.starttime < other.endtime )
        => /\ probe.conflict <=> ( /\ cand.starttime < other.endtime
                                   /\ other.starttime < cand.endtime )
           /\ (cand.starttime = other.endtime \/ cand.endtime = other.starttime)
                => ~probe.conflict
           /\ (cand.starttime = other.starttime /\ cand.endtime = other.endtime)
                => probe.conflict

(* The condition has been evaluated for a well-formed candidate that       *)
(* starts where the well-formed stored interval ends, and found false.     *)
C3_Witness ==
    /\ probe.evaluated
    /\ probe.starttime < probe.endtime
    /\ probe.row.starttime < probe.row.endtime
    /\ probe.starttime = probe.row.endtime
    /\ ~probe.conflict

----------------------------------------------------------------------------
(* What the claims about get_available_windows speak of *)

Answered == avail.status = StatusOK

Facility == carwashes[avail.carwashid]

Duration == services[avail.serviceid].duration

(* The stored bookings of window w of the facility and date asked for. *)
WindowBookings(w) ==
    {id \in DOMAIN orders :
        /\ orders[id].carwashid = avail.carwashid
        /\ orders[id].date = avail.date
        /\ orders[id].washwindow = w}

(* The bookings of window w are intervals, pairwise non-overlapping, and   *)
(* inside the opening hours.                                               *)
TidyWindow(w) ==
    /\ \A i \in WindowBookings(w) :
            /\ orders[i].starttime < orders[i].endtime
            /\ Facility.openingtime <= orders[i].starttime
            /\ orders[i].endtime <= Facility.closingtime
    /\ \A i \in WindowBookings(w) : \A j \in WindowBookings(w) :
            i # j => ~Overlaps(orders[i], orders[j])

(* The maximal gaps of window w between opening, its bookings and closing  *)
(* that are long enough for the service, as <<from, to>> in seconds.       *)
SufficientGaps(w) ==
    LET froms == {Facility.openingtime}
                    \cup {orders[i].endtime : i \in WindowBookings(w)}
        tos == {Facility.closingtime}
                    \cup {orders[i].starttime : i \in WindowBookings(w)}
    IN  {g \in froms \X tos :
            /\ g[1] < g[2]
            /\ \A i \in WindowBookings(w) :
                    orders[i].endtime <= g[1] \/ orders[i].starttime >= g[2]
            /\ (g[2] - g[1]) >= Duration * SecondsPerMinute}

(* A set of gaps in chronological order. *)
Chronological(gaps) ==
    CHOOSE l \in [1..Cardinality(gaps) -> gaps] :
        \A i \in DOMAIN l : \A j \in DOMAIN l : i < j => l[i][1] < l[j][1]

(* The slots returned for window w. *)
Returned(w) ==
    LET InWindow(slot) == slot.washwindow = w
    IN  SelectSeq(avail.slots, InWindow)

(* The minutes since midnight that a text <<HH, MM>> shows, and the time   *)
(* of day, in seconds, that it names.                                      *)
ShownMinutes(hm) == hm[1] * MinutesPerHour + hm[2]

NamedTime(hm) == ShownMinutes(hm) * SecondsPerMinute

(* The slots returned for window w are the gaps, one for one and in order. *)
ReturnedAre(w, gaps) ==
    LET expected == Chronological(gaps)
    IN  /\ Len(Returned(w)) = Len(expected)
        /\ \A i \in DOMAIN expected :
                /\ NamedTime(Returned(w)[i].starttime) = expected[i][1]
                /\ NamedTime(Returned(w)[i].endtime) = expected[i][2]

WholeMinute(t) == t % SecondsPerMinute = 0

(* C8: for a wash-window whose bookings on the date are pairwise           *)
(* non-overlapping and lie inside [opening, closing], get_available_windows*)
(* returns for that window exactly the maximal gaps between opening, the   *)
(* bookings and closing whose length in minutes is >= the service          *)
(* duration, in chronological order; with zero bookings, the single        *)
(* interval [opening, closing) when it is long enough and nothing          *)
(* otherwise.                                                              *)
C8_ReturnsExactlyTheMaximalGaps ==
    Answered =>
        \A w \in 1..Facility.windowsnumber :
            TidyWindow(w) => ReturnedAre(w, SufficientGaps(w))

(* The same when opening, closing and the window's bookings are on whole   *)
(* minutes, where "%H:%M" shows the whole time.                            *)
WholeMinuteGapsReturned ==
    Answered =>
        \A w \in 1..Facility.windowsnumber :
            ( /\ TidyWindow(w)
              /\ WholeMinute(Facility.openingtime)
              /\ WholeMinute(Facility.closingtime)
              /\ \A i \in WindowBookings(w) :
                    /\ WholeMinute(orders[i].starttime)
                    /\ WholeMinute(orders[i].endtime) )
            => ReturnedAre(w, SufficientGaps(w))

(* C9: every free interval returned by get_available_windows, for any      *)
(* facility hours, window count, positive service duration and stored      *)
(* bookings, has a length in minutes >= the service duration.              *)
C9_ReturnedSlotsFitTheService ==
    Answered =>
        \A i \in DOMAIN avail.slots :
            ShownMinutes(avail.slots[i].endtime)
                - ShownMinutes(avail.slots[i].starttime) >= Duration

(* A window has a booking that starts after opening by less than the       *)
(* service takes, and a returned slot that is exactly as long as the       *)
(* service.                                                                *)
C9_Witness ==
    /\ Answered
    /\ \E w \in 1..Facility.windowsnumber :
        /\ \E b \in WindowBookings(w) :
            /\ Facility.openingtime < orders[b].starttime
            /\ orders[b].starttime - Facility.openingtime
                    < Duration * SecondsPerMinute
        /\ \E i \in DOMAIN Returned(w) :
            ShownMinutes(Returned(w)[i].endtime)
                - ShownMinutes(Returned(w)[i].starttime) = Duration

(* C10: the result accounts for every window number 1..windowsnumber: a    *)
(* window with no gap of sufficient length is present in the result (with  *)
(* an empty sequence of free intervals), not omitted from it.              *)
C10_EveryWindowPresent ==
    Answered =>
        \A w \in 1..Facility.windowsnumber :
            \E i \in DOMAIN avail.slots : avail.slots[i].washwindow = w

(* C10 as amended: the result is one list of slots, each carrying its      *)
(* window number, which is in 1..windowsnumber, in ascending order of      *)
(* window number; a window is in the result only through its slots, so a   *)
(* window with no gap of sufficient length is omitted from it.  (Gaps as   *)
(* in C8: for windows whose bookings are non-overlapping intervals inside  *)
(* the opening hours.)                                                     *)
C10_WindowsListedThroughSlots ==
    Answered =>
        /\ \A i \in DOMAIN avail.slots :
                avail.slots[i].washwindow \in 1..Facility.windowsnumber
        /\ \A i \in DOMAIN avail.slots : \A j \in DOMAIN avail.slots :
                i < j => avail.slots[i].washwindow <= avail.slots[j].washwindow
        /\ \A w \in 1..Facility.windowsnumber :
                TidyWindow(w) =>
                    (Returned(w) = <<>> <=> SufficientGaps(w) = {})

(* Of two windows, the first is fully booked and has no slot in the        *)
(* result, the second has one.                                             *)
C10_Witness ==
    /\ Answered
    /\ Facility.windowsnumber = 2
    /\ TidyWindow(1) /\ WindowBookings(1) # {} /\ SufficientGaps(1) = {}
    /\ Returned(1) = <<>>
    /\ Returned(2) # <<>>

(* C11: get_available_windows rejects its input with an error, before      *)
(* computing any slot, when the service duration is <= 0 and when the      *)
(* facility's window count is < 1; it never returns a successful slot list *)
(* in either case.                                                         *)
C11_InvalidConfigurationRejected ==
    Answered => (Duration > 0 /\ Facility.windowsnumber >= 1)

(* The time of day, in seconds, that a returned slot spans as shown. *)
SlotFrom(slot) == NamedTime(slot.starttime)

SlotTo(slot) == NamedTime(slot.endtime)

(* C13: no free interval returned by get_available_windows for a window    *)
(* overlaps any stored booking of that window on that date, including when *)
(* the window's bookings overlap or contain one another: the cursor never  *)
(* moves backwards.  Stated for a positive duration and for windows whose  *)
(* bookings are intervals (start < end) and where opening and the          *)
(* bookings' ends are whole minutes, so that every slot's start is shown   *)
(* exactly and its end is shown no later than it is.                       *)
C13_NoSlotOverlapsABooking ==
    Answered =>
        \A w \in 1..Facility.windowsnumber :
            ( /\ Duration > 0
              /\ WholeMinute(Facility.openingtime)
              /\ \A i \in WindowBookings(w) :
                    /\ orders[i].starttime < orders[i].endtime
                    /\ WholeMinute(orders[i].endtime) )
            => \A k \in DOMAIN Returned(w) : \A i \in WindowBookings(w) :
                    ~( /\ SlotFrom(Returned(w)[k]) < orders[i].endtime
                       /\ orders[i].starttime < SlotTo(Returned(w)[k]) )

(* C19: every free interval returned by get_available_windows lies inside  *)
(* the facility's operating hours, for any set of stored bookings,         *)
(* including bookings that start before opening or start or end after      *)
(* closing.  Stated for a positive duration and bookings that are          *)
(* intervals (start < end), and compared as the texts "HH:MM" show the     *)
(* times: the slot's start is not before the minute of opening and its end *)
(* is not after the minute of closing.                                     *)
C19_SlotsInsideOperatingHours ==
    ( /\ Answered
      /\ Duration > 0
      /\ \A i \in DOMAIN orders : orders[i].starttime < orders[i].endtime )
    =>  \A k \in DOMAIN avail.slots :
            /\ ShownMinutes(avail.slots[k].starttime)
                    >= ShownMinutes(FormatHM(Facility.openingtime))
            /\ ShownMinutes(avail.slots[k].endtime)
                    <= ShownMinutes(FormatHM(Facility.closingtime))

C18_UpdateChangesOnlyState ==
    [][\A r \in Requests :
        (IsUpdate(r) /\ req[r].pc = "update" /\ Done(r)')
        => /\ DOMAIN orders' = DOMAIN orders
           /\ \A id \in DOMAIN orders :
                IF id = req[r].orderid
                THEN [orders'[id] EXCEPT !.state = orders[id].state]
                        = orders[id]
                ELSE orders'[id] = orders[id]
           /\ NoOverlap(orders) => NoOverlap(orders')]_vars

(* An update has ended OK and left its reservation in the last state code, *)
(* which no reservation had at the start, beside another reservation of    *)
(* the same partition.                                                     *)
C18_Witness ==
    \E r \in Requests :
        /\ Done(r) /\ IsUpdate(r) /\ req[r].status = StatusOK
        /\ req[r].state = MaxState
        /\ orders[req[r].orderid].state = MaxState
        /\ \E id \in DOMAIN orders \ {req[r].orderid} :
                SamePartition(orders[id], orders[req[r].orderid])

(* A call of a handler has ended: the handler returned or an exception    *)
(* left it.                                                                *)
Ended == call.pc = "done"

(* C12: every request that targets an absent entity ends with the NotFound *)
(* kind (404) and never with another error kind: delete_carwash and        *)
(* delete_service on an id that is not stored, as get_order and            *)
(* delete_feedback.                                                        *)
C12_AbsentEntityEndsNotFound ==
    (Ended /\ call.outcome = "no_row") => call.status = StatusNotFound

(* C16: every request handler releases the store session it opened on      *)
(* every exit path, including the path where a store operation raises:     *)
(* after any handler finishes, normally or with an error, no session       *)
(* opened by it remains open.                                              *)
C16_SessionClosedOnEveryExit ==
    Ended => call.session = "closed"

(* C17: an unexpected store failure raised during a delete handler is      *)
(* surfaced to the caller as a result distinct from the 400 used for       *)
(* Conflict and validation failures.                                       *)
C17_StoreFailureIsNot400 ==
    ( /\ Ended
      /\ call.handler \in {"delete_carwash", "delete_service",
                            "delete_feedback"}
      /\ call.outcome = "store_error" )
    => call.status # StatusBadRequest

====
